---- MODULE Spec2Model ----
(***************************************************************************)
(* Model of the orchestration layer of abcd-modal.py: the streaming        *)
(* endpoint's generator stream_evaluation (Pipeline Sequencer), its nested *)
(* generator run_with_keepalive (Keepalive Executor), the completion       *)
(* callback on_task_complete, the single-slot worker the blocking calls    *)
(* run on, and the non-streaming function assess_video.                    *)
(*                                                                         *)
(* One behaviour is one run.  Init draws the request, the presence of the  *)
(* service-account secret and the invocation path; the actions are the    *)
(* statements of the code between two suspension points.  Time is the      *)
(* value time.time() would return, measured from the start of the current  *)
(* blocking call.                                                          *)
(***************************************************************************)
EXTENDS Integers, Sequences, FiniteSets, TLC

\* ------------------------------------------------------------------ bounds
\* longest time a blocking call is followed for (in time units)
MaxCallTime == 34
\* the observer counters of emitted events saturate at this value
MaxCounted == 3

\* ------------------------------------------------------- program constants
PollTimeout == 2
KeepaliveInterval == 30
BaseSteps == 4

None == "None"
\* the values a result cell can hold besides a list of evaluated checks, written
\* as one-element sequences so that they compare with lists: Python's None,
\* and the state of a local name that was never bound
NoValue == <<None>>
Unbound == <<"<unbound>">>

\* ------------------------------------------------------------------ inputs
ProviderTags == {"GCS", "gcs", "YOUTUBE", "VIMEO"}
Uris == {"gs://bucket/video.mp4", "https://youtube.com/watch?v=1", "https://example.com/v.mp4"}

\* str.upper() on the provider tags of the model
Upper(s) ==
  CASE s = "gcs" -> "GCS"
    [] s = "youtube" -> "YOUTUBE"
    [] OTHER -> s

\* '"gs://" in gcs_uri' and '"youtube.com" in gcs_uri'
HasGsScheme(uri) == uri \in {"gs://bucket/video.mp4"}
HasYoutubeDomain(uri) == uri \in {"https://youtube.com/watch?v=1"}

\* members of the enum CreativeProviderType
CreativeProviderType == {"GCS", "YOUTUBE"}

Requests ==
  [use_annotations : BOOLEAN, run_long_form_abcd : BOOLEAN,
   run_shorts : BOOLEAN, run_custom : BOOLEAN,
   creative_provider_type : ProviderTags,
   bq_table_name : {"", "results"},
   gcs_uri : Uris]

\* the values of the request field features_to_evaluate: no filter, or the
\* id of one check
FeatureFilters == {"", "a_feature_id"}

\* ------------------------------------------------------- work-unit registry
\* get_features_by_category_by_group_config(category): the item count of
\* each group of the category
Registry ==
  [LONG_FORM_ABCD |-> <<2, 1>>, SHORTS |-> <<1>>, CUSTOM |-> <<1>>]

RECURSIVE SumSeq(_)
SumSeq(s) == IF s = <<>> THEN 0 ELSE Head(s) + SumSeq(Tail(s))

\* variant: len(groups), the number of groups of the category
TaskCountGroups(category) == Len(Registry[category])

\* sum(len(features) for features in groups.values())
TaskCount(category) == SumSeq(Registry[category])

\* lines 523-553: base steps plus the feature tasks of the enabled categories
Total(req) ==
  LET base_steps ==
        BaseSteps
        + (IF req.use_annotations /\ req.creative_provider_type = "GCS" THEN 1 ELSE 0)
        + (IF req.run_long_form_abcd /\ req.creative_provider_type = "GCS" THEN 1 ELSE 0)
        + (IF req.bq_table_name # "" THEN 1 ELSE 0)
      long_form_tasks == IF req.run_long_form_abcd THEN TaskCount("LONG_FORM_ABCD") ELSE 0
      shorts_tasks == IF req.run_shorts THEN TaskCount("SHORTS") ELSE 0
      custom_tasks == IF req.run_custom THEN TaskCount("CUSTOM") ELSE 0
  IN base_steps + long_form_tasks + shorts_tasks + custom_tasks

\* ------------------------------------------------------------------ stages
\* the blocking calls handed to the worker, by the name used in the model
StageNames == {"annotations", "trim", "long_form", "shorts", "custom", "store", "cleanup"}

\* the step label passed to run_with_keepalive
StepName(st) ==
  CASE st = "annotations" -> "Generating video annotations"
    [] st = "trim" -> "Trimming video"
    [] st = "long_form" -> "Evaluating long-form ABCD features"
    [] st = "shorts" -> "Evaluating Shorts features"
    [] st = "custom" -> "Evaluating Custom features"
    [] st = "store" -> "Storing results in BigQuery"
    [] st = "cleanup" -> "Cleaning up"

\* the category an evaluation call is made for
CategoryOf(st) ==
  CASE st = "long_form" -> "LONG_FORM_ABCD"
    [] st = "shorts" -> "SHORTS"
    [] st = "custom" -> "CUSTOM"

IsEvaluation(st) == st \in {"long_form", "shorts", "custom"}

\* evaluate_features fans out one sub-task per group; each sub-task calls
\* on_task_complete once with the list of its evaluated features
SubTasks(st) ==
  IF IsEvaluation(st)
    THEN [i \in 1..Len(Registry[CategoryOf(st)]) |->
            [st |-> "pending", n |-> Registry[CategoryOf(st)][i], tmp |-> 0]]
    ELSE <<>>

\* evaluate_features under a check filter that names one check of the first
\* long-form group: that check alone is evaluated
FilteredSubTasks(st) ==
  IF st = "long_form" THEN <<[st |-> "pending", n |-> 1, tmp |-> 0]>> ELSE <<>>

\* the value the blocking call of a stage returns
ResultOf(st) == IF IsEvaluation(st) THEN <<CategoryOf(st)>> ELSE NoValue

\* variant: the Shorts stage is written before the long-form stage
AfterShortsFirst(st) ==
  CASE st = "annotations" -> "at_trim"
    [] st = "trim" -> "at_shorts"
    [] st = "long_form" -> "at_custom"
    [] st = "shorts" -> "at_long_form"
    [] st = "custom" -> "at_build"
    [] st = "store" -> "at_cleanup"
    [] st = "cleanup" -> "at_complete"

\* where the sequencer continues after the call of a stage has returned
After(st) ==
  CASE st = "annotations" -> "at_trim"
    [] st = "trim" -> "at_long_form"
    [] st = "long_form" -> "at_shorts"
    [] st = "shorts" -> "at_custom"
    [] st = "custom" -> "at_build"
    [] st = "store" -> "at_cleanup"
    [] st = "cleanup" -> "at_complete"

\* ------------------------------------------------------------------- state
VARIABLES
  path,              \* "stream" (stream), "endpoint" (assess_video_endpoint) or
                     \* "sync" (assess_video called by main)
  request,           \* the request of the run
  sa_json,           \* is GCP_SERVICE_ACCOUNT_JSON set
  token_ok,          \* does the bearer credential equal AUTH_TOKEN
  features_to_evaluate,   \* the check filter of the request
  pc,                \* position of the generator / of assess_video
  stage,             \* the stage whose call run_with_keepalive is driving
  completed, total, current_step,
  progress_queue,    \* queue.Queue of ("task_done", completed, total)
  task_result, long_form_results, shorts_results, custom_results,
  future,            \* the call on the worker: none, running, returned, raised, raised_timeout
  tasks,             \* the sub-tasks of the running evaluation call
  clock,             \* time.time() since the current call was submitted
  last_keepalive,
  creds_path,        \* None or the path of the temporary credentials file
  creds_file,        \* does the temporary credentials file exist
  executor,          \* none, active, shutdown
  lastEvent, prevEvent,       \* the last two events written to the channel
  nProcessing, nComplete, nError,   \* events written so far (saturating)
  submitted,         \* the stages whose blocking call was started, in order
  call_raised,       \* has a blocking call of the run raised
  abandoned,         \* has the client abandoned the stream
  hbInCall,          \* was an event with unchanged progress written during the current call
  cbInCall,          \* has a completion callback fired during the current call
  callBase,          \* the value of completed when the current call was submitted
  outcome,           \* of the request: running, returned, raised, unauthorized
  registry_queried,  \* was the feature registry asked for a category (lines 537-551)
  total_writes,      \* how many times total[0] was assigned (line 553)
  finished,          \* the units of work that have really ended: a step that ran,
                     \* a check whose callback ran, an atomic call that returned
  orphaned,          \* the worker was released while its call was still running
  pc2,               \* a second run of stream in the same container: its position,
  completed2,        \* its own cells completed, total, current_step,
  total2,
  current_step2,
  progress_queue2,   \* its own progress queue,
  tasks2,            \* the sub-tasks of its evaluation call,
  lastEvent2,        \* the last event written to its own channel,
  nProcessing2       \* and the number of its processing events (saturating)

progressVars == <<completed, total, current_step, progress_queue>>
resultVars == <<task_result, long_form_results, shorts_results, custom_results>>
workerVars == <<future, tasks>>
timeVars == <<clock, last_keepalive>>
credVars == <<creds_path, creds_file>>
eventVars == <<lastEvent, prevEvent, nProcessing, nComplete, nError>>
callObs == <<hbInCall, cbInCall>>
inputVars == <<path, request, sa_json, token_ok, features_to_evaluate>>
runObs == <<registry_queried, total_writes, finished, orphaned>>
peerVars == <<pc2, completed2, total2, current_step2, progress_queue2, tasks2, lastEvent2,
              nProcessing2>>

vars == <<path, request, sa_json, token_ok, features_to_evaluate, pc, stage, completed, total, current_step,
          progress_queue, task_result, long_form_results, shorts_results,
          custom_results, future, tasks, clock, last_keepalive, creds_path,
          creds_file, executor, lastEvent, prevEvent, nProcessing, nComplete,
          nError, submitted, call_raised, abandoned, hbInCall, cbInCall, callBase,
          outcome, registry_queried, total_writes, finished, orphaned,
          pc2, completed2, total2, current_step2, progress_queue2, tasks2, lastEvent2,
          nProcessing2>>

\* everything that belongs to the first run
runVars == <<inputVars, runObs, callBase, pc, stage, progressVars, resultVars, workerVars,
             timeVars, credVars, executor, eventVars, submitted, call_raised, abandoned,
             callObs, outcome>>

NoEvent == [status |-> "none"]

Init ==
  /\ path \in {"stream", "sync", "endpoint"}
  /\ request \in Requests
  /\ sa_json \in BOOLEAN
  /\ token_ok \in (IF path = "sync" THEN {TRUE} ELSE BOOLEAN)
  /\ features_to_evaluate \in (IF path = "stream" THEN FeatureFilters ELSE {""})
  /\ pc = IF path = "sync" THEN "start" ELSE "request"
  /\ stage = None
  /\ completed = 0 /\ total = 0 /\ current_step = "Initializing"
  /\ progress_queue = <<>>
  /\ task_result = NoValue
  /\ long_form_results = Unbound /\ shorts_results = Unbound /\ custom_results = Unbound
  /\ future = "none" /\ tasks = <<>>
  /\ clock = 0 /\ last_keepalive = 0
  /\ creds_path = None /\ creds_file = FALSE
  /\ executor = "none"
  /\ lastEvent = NoEvent /\ prevEvent = NoEvent
  /\ nProcessing = 0 /\ nComplete = 0 /\ nError = 0
  /\ submitted = <<>>
  /\ call_raised = FALSE /\ abandoned = FALSE
  /\ hbInCall = FALSE /\ cbInCall = FALSE /\ callBase = 0
  /\ outcome = "running"
  /\ registry_queried = FALSE /\ total_writes = 0 /\ finished = 0 /\ orphaned = FALSE
  /\ pc2 = "idle"
  /\ completed2 = 0 /\ total2 = 0 /\ current_step2 = "Initializing"
  /\ progress_queue2 = <<>> /\ tasks2 = <<>>
  /\ lastEvent2 = NoEvent /\ nProcessing2 = 0

\* ------------------------------------------------------------ event emitter
Sat(n) == IF n < MaxCounted THEN n + 1 ELSE MaxCounted

\* progress_msg(): the snapshot of the three cells at the moment of the call
ProgressMsg(step, c, t) == [status |-> "processing", step |-> step, progress |-> <<c, t>>]

\* one record written to the channel (a yield of stream_evaluation)
Yield(ev) ==
  /\ prevEvent' = lastEvent
  /\ lastEvent' = ev
  /\ nProcessing' = IF ev.status = "processing" THEN Sat(nProcessing) ELSE nProcessing
  /\ nComplete' = IF ev.status = "complete" THEN Sat(nComplete) ELSE nComplete
  /\ nError' = IF ev.status = "error" THEN Sat(nError) ELSE nError

\* lines 782-783: an exception raised inside the try block becomes one error event
Except(msg) ==
  /\ Yield([status |-> "error", error |-> msg])
  /\ pc' = "y_error"


\* the frame of run_with_keepalive (or the await of line 777) is left: its
\* locals and the handle of the call are gone
CallOver ==
  /\ future' = "none" /\ tasks' = <<>>
  /\ clock' = 0 /\ last_keepalive' = 0
  /\ hbInCall' = FALSE /\ cbInCall' = FALSE /\ callBase' = 0

\* --------------------------------------------- stream.stream_evaluation
\* lines 596-602: the provider tag names no member of the enum
UnknownProvider(req) == Upper(req.creative_provider_type) \notin CreativeProviderType

\* ProviderMismatch without the test of line 601
ProviderMismatchGcsOnly(req) ==
  LET provider_type == Upper(req.creative_provider_type)
  IN provider_type = "GCS" /\ ~HasGsScheme(req.gcs_uri)

\* lines 599-602: the locator does not match the provider family
ProviderMismatch(req) ==
  LET provider_type == Upper(req.creative_provider_type)
  IN \/ provider_type = "GCS" /\ ~HasGsScheme(req.gcs_uri)
     \/ provider_type = "YOUTUBE" /\ ~HasYoutubeDomain(req.gcs_uri)

\* lines 662 and 673: the conditions under which the two GCS-only stages run
RunsAnnotations(req) == req.use_annotations /\ Upper(req.creative_provider_type) = "GCS"
RunsTrim(req) == req.run_long_form_abcd /\ Upper(req.creative_provider_type) = "GCS"

\* 'completed[0] += inc; current_step[0] = label; yield progress_msg()'
Step(label, inc) ==
  /\ completed' = completed + inc
  /\ current_step' = label
  /\ Yield(ProgressMsg(label, completed + inc, total))

\* variant: the generator is created whatever the credential
StreamAuthUnchecked ==
  /\ path = "stream" /\ pc = "request"
  /\ pc' = "start" /\ executor' = "active" /\ UNCHANGED outcome
  /\ UNCHANGED <<inputVars, peerVars, runObs, callBase, stage, progressVars, resultVars, workerVars, timeVars,
                 credVars, eventVars, submitted, call_raised, abandoned, callObs>>

\* lines 430-449: the bearer credential is checked; on a match the generator
\* is handed to the response and creates its worker and its progress cells
StreamAuth ==
  /\ path = "stream" /\ pc = "request"
  /\ IF token_ok
       THEN pc' = "start" /\ executor' = "active" /\ UNCHANGED outcome
       ELSE pc' = "done" /\ outcome' = "unauthorized" /\ UNCHANGED executor
  /\ UNCHANGED <<inputVars, peerVars, runObs, callBase, stage, progressVars, resultVars, workerVars, timeVars,
                 credVars, eventVars, submitted, call_raised, abandoned, callObs>>

\* variant: setup_gcp_credentials is called before the try statement, so its
\* exception leaves the generator without an error event and without the
\* finally block
SetupOutsideTry ==
  /\ path = "stream" /\ pc = "start"
  /\ IF ~sa_json
       THEN /\ pc' = "done"
            /\ UNCHANGED <<completed, total, current_step, credVars, registry_queried,
                           total_writes, finished, eventVars>>
       ELSE /\ creds_path' = "/tmp/creds.json" /\ creds_file' = TRUE
            /\ registry_queried' = (request.run_long_form_abcd \/ request.run_shorts
                                      \/ request.run_custom)
            /\ total' = Total(request)
            /\ total_writes' = total_writes + 1
            /\ finished' = 1
            /\ completed' = 1
            /\ current_step' = "Setting up credentials"
            /\ Yield(ProgressMsg("Setting up credentials", 1, Total(request)))
            /\ pc' = "y_setup"
  /\ UNCHANGED <<inputVars, peerVars, orphaned, callBase, stage, progress_queue, resultVars,
                 workerVars, timeVars, executor, submitted, call_raised, abandoned, callObs,
                 outcome>>

\* lines 505-559: credentials, the total, and the first progress event
Setup ==
  /\ path = "stream" /\ pc = "start"
  /\ IF ~sa_json
       THEN /\ Except("GCP_SERVICE_ACCOUNT_JSON not found")
            /\ UNCHANGED <<completed, total, current_step, credVars, registry_queried,
                           total_writes, finished>>
       ELSE /\ creds_path' = "/tmp/creds.json" /\ creds_file' = TRUE
            /\ registry_queried' = (request.run_long_form_abcd \/ request.run_shorts
                                      \/ request.run_custom)
            /\ total' = Total(request)
            /\ total_writes' = total_writes + 1
            /\ finished' = 1
            /\ completed' = 1
            /\ current_step' = "Setting up credentials"
            /\ Yield(ProgressMsg("Setting up credentials", 1, Total(request)))
            /\ pc' = "y_setup"
  /\ UNCHANGED <<inputVars, peerVars, orphaned, callBase, stage, progress_queue, resultVars, workerVars, timeVars,
                 executor, submitted, call_raised, abandoned, callObs, outcome>>

\* lines 561-564
BuildConfigurationStep ==
  /\ pc = "y_setup"
  /\ completed' = 2
  /\ finished' = 2
  /\ current_step' = "Building configuration"
  /\ Yield(ProgressMsg("Building configuration", 2, total))
  /\ pc' = "y_config"
  /\ UNCHANGED <<inputVars, peerVars, registry_queried, total_writes, orphaned, callBase, stage, total, progress_queue, resultVars, workerVars, timeVars,
                 credVars, executor, submitted, call_raised, abandoned, callObs, outcome>>

\* lines 566-659: the provider type, the validation of the locator, the configuration
Validate ==
  /\ pc = "y_config"
  /\ IF UnknownProvider(request) THEN Except("KeyError")
     ELSE IF ProviderMismatch(request) THEN Except("Creative provider does not match video URI")
     ELSE pc' = "at_annotations" /\ UNCHANGED eventVars
  /\ UNCHANGED <<inputVars, peerVars, runObs, callBase, stage, progressVars, resultVars, workerVars, timeVars,
                 credVars, executor, submitted, call_raised, abandoned, callObs, outcome>>

\* lines 661-665
AnnotationsStep ==
  /\ pc = "at_annotations"
  /\ IF RunsAnnotations(request)
       THEN /\ Step("Generating video annotations", 1)
            /\ stage' = "annotations" /\ pc' = "rk_start"
       ELSE /\ pc' = "at_trim"
            /\ UNCHANGED <<completed, current_step, eventVars, stage>>
  /\ UNCHANGED <<inputVars, peerVars, runObs, callBase, total, progress_queue, resultVars, workerVars, timeVars,
                 credVars, executor, submitted, call_raised, abandoned, callObs, outcome>>

\* lines 672-676
TrimStep ==
  /\ pc = "at_trim"
  /\ IF RunsTrim(request)
       THEN /\ Step("Trimming video", 1)
            /\ stage' = "trim" /\ pc' = "rk_start"
       ELSE /\ pc' = "at_long_form"
            /\ UNCHANGED <<completed, current_step, eventVars, stage>>
  /\ UNCHANGED <<inputVars, peerVars, runObs, callBase, total, progress_queue, resultVars, workerVars, timeVars,
                 credVars, executor, submitted, call_raised, abandoned, callObs, outcome>>

\* variant: the long-form checks are added to the total when their stage starts
LongFormStepLazyTotal ==
  /\ pc = "at_long_form"
  /\ long_form_results' = <<>>
  /\ IF request.run_long_form_abcd
       THEN /\ total' = total + TaskCount("LONG_FORM_ABCD")
            /\ total_writes' = total_writes + 1
            /\ completed' = completed
            /\ current_step' = "Evaluating long-form ABCD features"
            /\ Yield(ProgressMsg(current_step', completed, total'))
            /\ stage' = "long_form" /\ pc' = "rk_start"
       ELSE /\ pc' = "at_shorts"
            /\ UNCHANGED <<completed, total, total_writes, current_step, eventVars, stage>>
  /\ UNCHANGED <<inputVars, peerVars, registry_queried, finished, orphaned, callBase, progress_queue,
                 task_result, shorts_results, custom_results,
                 workerVars, timeVars, credVars, executor, submitted, call_raised,
                 abandoned, callObs, outcome>>

\* lines 683-687
LongFormStep ==
  /\ pc = "at_long_form"
  /\ long_form_results' = <<>>
  /\ IF request.run_long_form_abcd
       THEN /\ Step("Evaluating long-form ABCD features", 0)
            /\ stage' = "long_form" /\ pc' = "rk_start"
       ELSE /\ pc' = "at_shorts"
            /\ UNCHANGED <<completed, current_step, eventVars, stage>>
  /\ UNCHANGED <<inputVars, peerVars, runObs, callBase, total, progress_queue, task_result, shorts_results, custom_results,
                 workerVars, timeVars, credVars, executor, submitted, call_raised,
                 abandoned, callObs, outcome>>

\* lines 700-704
ShortsStep ==
  /\ pc = "at_shorts"
  /\ shorts_results' = <<>>
  /\ IF request.run_shorts
       THEN /\ Step("Evaluating Shorts features", 0)
            /\ stage' = "shorts" /\ pc' = "rk_start"
       ELSE /\ pc' = "at_build"
            /\ UNCHANGED <<completed, current_step, eventVars, stage>>
  /\ UNCHANGED <<inputVars, peerVars, runObs, callBase, total, progress_queue, task_result, long_form_results, custom_results,
                 workerVars, timeVars, credVars, executor, submitted, call_raised,
                 abandoned, callObs, outcome>>

\* lines 717-721, inside the body of 'if run_shorts:': only the assignment of
\* the step label is guarded by run_custom
CustomStep ==
  /\ pc = "at_custom"
  /\ custom_results' = <<>>
  /\ LET label == IF request.run_custom THEN "Evaluating Custom features" ELSE current_step
     IN Step(label, 0)
  /\ stage' = "custom" /\ pc' = "rk_start"
  /\ UNCHANGED <<inputVars, peerVars, runObs, callBase, total, progress_queue, task_result, long_form_results, shorts_results,
                 workerVars, timeVars, credVars, executor, submitted, call_raised,
                 abandoned, callObs, outcome>>

\* lines 734-737
BuildAssessmentStep ==
  /\ pc = "at_build"
  /\ Step("Building assessment", 1)
  /\ pc' = "y_build"
  /\ finished' = finished + 1
  /\ UNCHANGED <<inputVars, peerVars, registry_queried, total_writes, orphaned, callBase, stage, total, progress_queue, resultVars, workerVars, timeVars,
                 credVars, executor, submitted, call_raised, abandoned, callObs, outcome>>

\* lines 739-760: reading custom_results raises UnboundLocalError when the
\* body of 'if run_shorts:' was skipped
AssembleAssessment ==
  /\ pc = "y_build"
  /\ IF custom_results = Unbound
       THEN Except("UnboundLocalError: custom_results")
       ELSE pc' = "at_store" /\ UNCHANGED eventVars
  /\ UNCHANGED <<inputVars, peerVars, runObs, callBase, stage, progressVars, resultVars, workerVars, timeVars,
                 credVars, executor, submitted, call_raised, abandoned, callObs, outcome>>

\* lines 762-766
StoreStep ==
  /\ pc = "at_store"
  /\ IF request.bq_table_name # ""
       THEN /\ Step("Storing results in BigQuery", 1)
            /\ stage' = "store" /\ pc' = "rk_start"
       ELSE /\ pc' = "at_cleanup"
            /\ UNCHANGED <<completed, current_step, eventVars, stage>>
  /\ UNCHANGED <<inputVars, peerVars, runObs, callBase, total, progress_queue, resultVars, workerVars, timeVars,
                 credVars, executor, submitted, call_raised, abandoned, callObs, outcome>>

\* lines 773-776
CleanupStep ==
  /\ pc = "at_cleanup"
  /\ Step("Cleaning up", 1)
  /\ pc' = "y_cleanup"
  /\ UNCHANGED <<inputVars, peerVars, runObs, callBase, stage, total, progress_queue, resultVars, workerVars, timeVars,
                 credVars, executor, submitted, call_raised, abandoned, callObs, outcome>>

\* line 777: remove_local_video_files is handed to the worker and awaited directly
CleanupSubmit ==
  /\ pc = "y_cleanup"
  /\ future' = "running" /\ tasks' = <<>>
  /\ stage' = "cleanup"
  /\ submitted' = Append(submitted, "cleanup")
  /\ clock' = 0
  /\ hbInCall' = FALSE /\ cbInCall' = FALSE /\ callBase' = completed
  /\ pc' = "cleanup_await"
  /\ UNCHANGED <<inputVars, peerVars, runObs, progressVars, resultVars, last_keepalive, credVars, executor,
                 eventVars, call_raised, abandoned, outcome>>

\* line 777: time passes while the generator is suspended in the await
CleanupAwaitTick ==
  /\ pc = "cleanup_await" /\ future = "running"
  /\ clock < MaxCallTime
  /\ clock' = clock + PollTimeout
  /\ UNCHANGED <<inputVars, peerVars, runObs, callBase, pc, stage, progressVars, resultVars, workerVars, last_keepalive,
                 credVars, executor, eventVars, submitted, call_raised, abandoned, callObs,
                 outcome>>

\* line 777: the await returns or re-raises what the call raised
CleanupAwaited ==
  /\ pc = "cleanup_await" /\ future # "running"
  /\ IF future = "returned"
       THEN pc' = "at_complete" /\ UNCHANGED eventVars
       ELSE Except("cleanup failed")
  /\ finished' = IF future = "returned" THEN finished + 1 ELSE finished
  /\ CallOver
  /\ UNCHANGED <<inputVars, peerVars, registry_queried, total_writes, orphaned, stage, progressVars, resultVars, credVars,
                 executor, submitted, call_raised, abandoned, outcome>>

\* Complete with the complete event written before the cleanup of line 777
CompleteBeforeCleanup ==
  /\ pc = "at_complete"
  /\ Yield([status |-> "complete",
            result |-> [long_form_abcd_evaluated_features |-> long_form_results,
                        shorts_evaluated_features |-> shorts_results,
                        custom_evaluated_features |-> custom_results]])
  /\ pc' = "y_cleanup"
  /\ UNCHANGED <<inputVars, peerVars, runObs, callBase, stage, progressVars, resultVars, workerVars, timeVars,
                 credVars, executor, submitted, call_raised, abandoned, callObs, outcome>>

\* line 780: the result is serialised and written; a failure of to_dict or
\* json.dumps happens before the yield and is caught at line 782
Complete ==
  /\ pc = "at_complete"
  /\ \E serialisable \in BOOLEAN :
       IF serialisable
         THEN /\ Yield([status |-> "complete",
                        result |-> [long_form_abcd_evaluated_features |-> long_form_results,
                                    shorts_evaluated_features |-> shorts_results,
                                    custom_evaluated_features |-> custom_results]])
              /\ pc' = "y_complete"
         ELSE Except("result not serialisable")
  /\ UNCHANGED <<inputVars, peerVars, runObs, callBase, stage, progressVars, resultVars, workerVars, timeVars, credVars,
                 executor, submitted, call_raised, abandoned, callObs, outcome>>

\* the positions at which the generator is suspended (a yield or an await)
Suspended ==
  pc \in {"y_setup", "y_config", "rk_start", "rk_wait", "rk_loop", "rk_drain", "rk_await",
          "y_build", "y_cleanup", "cleanup_await", "y_complete", "y_error"}

\* Abandon with the release written after the try statement instead of in
\* its finally clause
AbandonWithoutRelease ==
  /\ path = "stream" /\ Suspended
  /\ abandoned' = TRUE
  /\ pc' = "done"
  /\ clock' = 0 /\ last_keepalive' = 0
  /\ hbInCall' = FALSE /\ cbInCall' = FALSE
  /\ UNCHANGED <<inputVars, peerVars, runObs, callBase, stage, progressVars, resultVars, workerVars, credVars,
                 executor, eventVars, submitted, call_raised, outcome>>

\* the client goes away: the generator is closed (GeneratorExit at a yield,
\* CancelledError at an await); neither is an Exception, so line 782 does not
\* catch it and control passes to the finally block
Abandon ==
  /\ path = "stream" /\ Suspended
  /\ abandoned' = TRUE
  /\ pc' = "closing"
  /\ clock' = 0 /\ last_keepalive' = 0
  /\ hbInCall' = FALSE /\ cbInCall' = FALSE
  /\ UNCHANGED <<inputVars, peerVars, runObs, callBase, stage, progressVars, resultVars, workerVars, credVars,
                 executor, eventVars, submitted, call_raised, outcome>>

\* variant: executor.shutdown(wait=True): the release waits for the call
FinallyWaits ==
  /\ pc \in {"y_complete", "y_error", "closing"}
  /\ future # "running"
  /\ creds_file' = IF creds_path # None /\ creds_file THEN FALSE ELSE creds_file
  /\ executor' = "shutdown"
  /\ pc' = "done"
  /\ orphaned' = (future = "running")
  /\ UNCHANGED <<inputVars, peerVars, registry_queried, total_writes, finished, callBase, stage,
                 progressVars, resultVars, workerVars, timeVars, creds_path,
                 eventVars, submitted, call_raised, abandoned, callObs, outcome>>

\* lines 785-789
Finally ==
  /\ pc \in {"y_complete", "y_error", "closing"}
  /\ creds_file' = IF creds_path # None /\ creds_file THEN FALSE ELSE creds_file
  /\ executor' = "shutdown"
  /\ pc' = "done"
  /\ orphaned' = (future = "running")
  /\ UNCHANGED <<inputVars, peerVars, registry_queried, total_writes, finished, callBase, stage,
                 progressVars, resultVars, workerVars, timeVars, creds_path,
                 eventVars, submitted, call_raised, abandoned, callObs, outcome>>


\* ------------------------------------------------------ run_with_keepalive
\* lines 473-478: the step label, the submission to the worker, the heartbeat
\* clock, and the first test of the loop (the future of a call just submitted
\* is not done: its completion is delivered by a later turn of the event loop)
RkStart ==
  /\ pc = "rk_start"
  /\ current_step' = StepName(stage)
  /\ future' = "running"
  /\ tasks' = IF features_to_evaluate = "" THEN SubTasks(stage) ELSE FilteredSubTasks(stage)
  /\ submitted' = Append(submitted, stage)
  /\ clock' = 0 /\ last_keepalive' = 0
  /\ hbInCall' = FALSE /\ cbInCall' = FALSE /\ callBase' = completed
  /\ pc' = "rk_wait"
  /\ UNCHANGED <<inputVars, peerVars, runObs, stage, completed, total, progress_queue, resultVars, credVars,
                 executor, eventVars, call_raised, abandoned, outcome>>

\* line 480: wait_for returns the result of the call within the poll interval
RkCompleted ==
  /\ pc = "rk_wait" /\ future = "returned"
  /\ task_result' = ResultOf(stage)
  /\ pc' = "rk_drain"
  /\ UNCHANGED <<inputVars, peerVars, runObs, callBase, stage, progressVars, long_form_results, shorts_results,
                 custom_results, workerVars, timeVars, credVars, executor, eventVars,
                 submitted, call_raised, abandoned, callObs, outcome>>

\* lines 482-484: one turn of the drain loop: one delta taken, one event written
RkDrainYield ==
  /\ pc = "rk_drain" /\ progress_queue # <<>>
  /\ progress_queue' = Tail(progress_queue)
  /\ Yield(ProgressMsg(current_step, completed, total))
  /\ UNCHANGED <<inputVars, peerVars, runObs, callBase, pc, stage, completed, total, current_step, resultVars, workerVars,
                 timeVars, credVars, executor, submitted, call_raised, abandoned, callObs,
                 outcome>>

\* the statement of the sequencer that follows the 'async for' over a stage:
\* the evaluation stages copy task_result[0] (lines 698, 715, 732)
Resume(st) ==
  /\ pc' = After(st)
  /\ long_form_results' = IF st = "long_form" THEN task_result' ELSE long_form_results
  /\ shorts_results' = IF st = "shorts" THEN task_result' ELSE shorts_results
  /\ custom_results' = IF st = "custom" THEN task_result' ELSE custom_results

\* line 485: the queue is empty, run_with_keepalive returns
RkReturn ==
  /\ pc = "rk_drain" /\ progress_queue = <<>>
  /\ task_result' = task_result
  /\ Resume(stage)
  /\ finished' = IF IsEvaluation(stage) THEN finished ELSE finished + 1
  /\ CallOver
  /\ UNCHANGED <<inputVars, peerVars, registry_queried, total_writes, orphaned, stage, progressVars, credVars, executor,
                 eventVars, submitted, call_raised, abandoned, outcome>>

\* RkRaised with the exception of the call swallowed by the executor
RkRaisedSwallowed ==
  /\ pc = "rk_wait" /\ future = "raised"
  /\ task_result' = NoValue
  /\ Resume(stage)
  /\ CallOver
  /\ UNCHANGED <<inputVars, peerVars, runObs, stage, progressVars, credVars, executor, eventVars,
                 submitted, call_raised, abandoned, outcome>>

\* line 480: wait_for re-raises what the call raised; the exception leaves
\* run_with_keepalive and the sequencer and is caught at line 782
RkRaised ==
  /\ pc = "rk_wait" /\ future = "raised"
  /\ Except("stage failed")
  /\ CallOver
  /\ UNCHANGED <<inputVars, peerVars, runObs, stage, progressVars, resultVars, credVars,
                 executor, submitted, call_raised, abandoned, outcome>>

\* variant: wait_for without asyncio.shield: the expiry cancels the call
RkTimeoutUnshielded ==
  /\ pc = "rk_wait"
  /\ \/ future = "running" /\ clock < MaxCallTime /\ clock' = clock + PollTimeout
        /\ future' = "cancelled"
     \/ future = "raised_timeout" /\ clock' = clock /\ future' = future
  /\ LET updates_found == progress_queue # <<>>
         now == clock'
     IN IF updates_found \/ (now - last_keepalive) >= KeepaliveInterval
          THEN /\ Yield(ProgressMsg(current_step, completed, total))
               /\ last_keepalive' = now
               /\ hbInCall' = (hbInCall \/ (lastEvent.status = "processing"
                                             /\ lastEvent.progress = <<completed, total>>))
          ELSE UNCHANGED <<eventVars, last_keepalive, hbInCall>>
  /\ progress_queue' = <<>>
  /\ pc' = "rk_loop"
  /\ UNCHANGED <<inputVars, peerVars, runObs, callBase, stage, completed, total, current_step, resultVars, tasks,
                 credVars, executor, submitted, call_raised, abandoned, cbInCall, outcome>>

\* variant: the except branch writes an event on every expiry
RkTimeoutAlwaysEmits ==
  /\ pc = "rk_wait"
  /\ \/ future = "running" /\ clock < MaxCallTime /\ clock' = clock + PollTimeout
     \/ future = "raised_timeout" /\ clock' = clock
  /\ Yield(ProgressMsg(current_step, completed, total))
  /\ last_keepalive' = clock'
  /\ hbInCall' = (hbInCall \/ (lastEvent.status = "processing"
                                /\ lastEvent.progress = <<completed, total>>))
  /\ progress_queue' = <<>>
  /\ pc' = "rk_loop"
  /\ UNCHANGED <<inputVars, peerVars, runObs, callBase, stage, completed, total, current_step,
                 resultVars, workerVars, credVars, executor, submitted, call_raised, abandoned,
                 cbInCall, outcome>>

\* lines 486-497: the poll interval expires (or the call itself raised
\* TimeoutError, which the same except clause catches): every buffered delta
\* is taken, and one event is written if any was taken or the heartbeat is due
RkTimeout ==
  /\ pc = "rk_wait"
  /\ \/ future = "running" /\ clock < MaxCallTime /\ clock' = clock + PollTimeout
     \/ future = "raised_timeout" /\ clock' = clock
  /\ LET updates_found == progress_queue # <<>>
         now == clock'
     IN IF updates_found \/ (now - last_keepalive) >= KeepaliveInterval
          THEN /\ Yield(ProgressMsg(current_step, completed, total))
               /\ last_keepalive' = now
               /\ hbInCall' = (hbInCall \/ (lastEvent.status = "processing"
                                             /\ lastEvent.progress = <<completed, total>>))
          ELSE UNCHANGED <<eventVars, last_keepalive, hbInCall>>
  /\ progress_queue' = <<>>
  /\ pc' = "rk_loop"
  /\ UNCHANGED <<inputVars, peerVars, runObs, callBase, stage, completed, total, current_step, resultVars, workerVars,
                 credVars, executor, submitted, call_raised, abandoned, cbInCall, outcome>>

\* variant: the loop gives up after a poll expiry and hands control back to
\* the sequencer while the call is still on the worker
RkLoopGivesUp ==
  /\ pc = "rk_loop"
  /\ pc' = IF future = "running" THEN After(stage) ELSE "rk_await"
  /\ UNCHANGED <<inputVars, peerVars, runObs, callBase, stage, progressVars, resultVars, workerVars, timeVars, credVars,
                 executor, eventVars, submitted, call_raised, abandoned, callObs, outcome>>

\* variant: 'while True:' in place of 'while not future.done():'
RkLoopWhileTrue ==
  /\ pc = "rk_loop"
  /\ pc' = "rk_wait"
  /\ UNCHANGED <<inputVars, peerVars, runObs, callBase, stage, progressVars, resultVars, workerVars,
                 timeVars, credVars, executor, eventVars, submitted, call_raised, abandoned,
                 callObs, outcome>>

\* line 478: the test of the loop after a poll expiry
RkLoop ==
  /\ pc = "rk_loop"
  /\ pc' = IF future = "running" THEN "rk_wait" ELSE "rk_await"
  /\ UNCHANGED <<inputVars, peerVars, runObs, callBase, stage, progressVars, resultVars, workerVars, timeVars, credVars,
                 executor, eventVars, submitted, call_raised, abandoned, callObs, outcome>>

\* line 499: the call was found done by the test of the loop; its result is
\* taken (or its exception re-raised) and run_with_keepalive ends
RkAwait ==
  /\ pc = "rk_await"
  /\ IF future = "returned"
       THEN /\ task_result' = ResultOf(stage)
            /\ Resume(stage)
            /\ UNCHANGED eventVars
       ELSE /\ Except("stage failed")
            /\ UNCHANGED resultVars
  /\ finished' = IF future = "returned" /\ ~IsEvaluation(stage) THEN finished + 1 ELSE finished
  /\ CallOver
  /\ UNCHANGED <<inputVars, peerVars, registry_queried, total_writes, orphaned, stage, progressVars, credVars, executor,
                 submitted, call_raised, abandoned, outcome>>

\* ------------------------------------------------------------- the worker
\* lines 458-463, first half of 'completed[0] += features_count': the
\* sub-task's thread reads the cell
OnTaskCompleteLoad(i) ==
  /\ future = "running"
  /\ i \in DOMAIN tasks /\ tasks[i].st = "pending"
  /\ tasks' = [tasks EXCEPT ![i].st = "loaded", ![i].tmp = completed]
  /\ UNCHANGED <<inputVars, peerVars, runObs, callBase, pc, stage, progressVars, resultVars, future, timeVars, credVars,
                 executor, eventVars, submitted, call_raised, abandoned, callObs, outcome>>

\* lines 463-464, second half: the thread writes the sum back and enqueues
OnTaskCompleteStore(i) ==
  /\ future = "running"
  /\ i \in DOMAIN tasks /\ tasks[i].st = "loaded"
  /\ completed' = tasks[i].tmp + tasks[i].n
  /\ progress_queue' = Append(progress_queue, <<"task_done", completed', total>>)
  /\ tasks' = [tasks EXCEPT ![i].st = "done", ![i].tmp = 0]
  /\ cbInCall' = TRUE
  /\ finished' = finished + tasks[i].n
  /\ UNCHANGED <<inputVars, peerVars, registry_queried, total_writes, orphaned, callBase, pc, stage, total, current_step, resultVars, future, timeVars,
                 credVars, executor, eventVars, submitted, call_raised, abandoned, hbInCall,
                 outcome>>

\* the blocking call returns once all its sub-tasks have reported
WorkerReturn ==
  /\ future = "running"
  /\ \A i \in DOMAIN tasks : tasks[i].st = "done"
  /\ future' = "returned"
  /\ UNCHANGED <<inputVars, peerVars, runObs, callBase, pc, stage, progressVars, resultVars, tasks, timeVars, credVars,
                 executor, eventVars, submitted, call_raised, abandoned, callObs, outcome>>

\* the blocking call raises (TimeoutError or any other exception)
WorkerRaise ==
  /\ future = "running"
  /\ \A i \in DOMAIN tasks : tasks[i].st # "loaded"
  /\ \E kind \in {"raised", "raised_timeout"} : future' = kind
  /\ call_raised' = TRUE
  /\ UNCHANGED <<inputVars, peerVars, runObs, callBase, pc, stage, progressVars, resultVars, tasks, timeVars, credVars,
                 executor, eventVars, submitted, abandoned, callObs, outcome>>


\* ------------------------------------------------------------ assess_video
\* an exception inside the try block of assess_video: control passes to the
\* finally block and the exception leaves the function
AvRaise ==
  /\ outcome' = "raised"
  /\ pc' = "av_finally"

\* a blocking call made directly by assess_video
AvCall(st, next) ==
  /\ submitted' = Append(submitted, st)
  /\ \E ok \in BOOLEAN :
       IF ok THEN pc' = next /\ UNCHANGED <<outcome, call_raised>>
             ELSE AvRaise /\ call_raised' = TRUE

\* line 141: the credentials are set up before the try block is entered
AvSetup ==
  /\ path = "sync" /\ pc = "start"
  /\ IF ~sa_json
       THEN outcome' = "raised" /\ pc' = "done" /\ UNCHANGED credVars
       ELSE /\ creds_path' = "/tmp/creds.json" /\ creds_file' = TRUE
            /\ pc' = "av_validate" /\ UNCHANGED outcome
  /\ UNCHANGED <<inputVars, peerVars, runObs, callBase, stage, progressVars, resultVars, workerVars, timeVars, executor,
                 eventVars, submitted, call_raised, abandoned, callObs>>

\* lines 153-166
AvValidate ==
  /\ pc = "av_validate"
  /\ IF UnknownProvider(request) \/ ProviderMismatch(request)
       THEN AvRaise
       ELSE pc' = "av_annotations" /\ UNCHANGED outcome
  /\ UNCHANGED <<inputVars, peerVars, runObs, callBase, stage, progressVars, resultVars, workerVars, timeVars, credVars,
                 executor, eventVars, submitted, call_raised, abandoned, callObs>>

\* lines 238-240
AvAnnotations ==
  /\ pc = "av_annotations"
  /\ IF RunsAnnotations(request)
       THEN AvCall("annotations", "av_trim")
       ELSE pc' = "av_trim" /\ UNCHANGED <<outcome, submitted, call_raised>>
  /\ UNCHANGED <<inputVars, peerVars, runObs, callBase, stage, progressVars, resultVars, workerVars, timeVars, credVars,
                 executor, eventVars, abandoned, callObs>>

\* lines 242-244
AvTrim ==
  /\ pc = "av_trim"
  /\ IF RunsTrim(request)
       THEN AvCall("trim", "av_long_form")
       ELSE pc' = "av_long_form" /\ UNCHANGED <<outcome, submitted, call_raised>>
  /\ UNCHANGED <<inputVars, peerVars, runObs, callBase, stage, progressVars, resultVars, workerVars, timeVars, credVars,
                 executor, eventVars, abandoned, callObs>>

\* lines 247-257
AvLongForm ==
  /\ pc = "av_long_form"
  /\ IF request.run_long_form_abcd
       THEN /\ AvCall("long_form", "av_shorts")
            /\ long_form_results' = IF pc' = "av_shorts" THEN ResultOf("long_form") ELSE <<>>
       ELSE /\ pc' = "av_shorts" /\ long_form_results' = <<>>
            /\ UNCHANGED <<outcome, submitted, call_raised>>
  /\ shorts_results' = <<>>
  /\ UNCHANGED <<inputVars, peerVars, runObs, callBase, stage, progressVars, task_result, custom_results, workerVars,
                 timeVars, credVars, executor, eventVars, abandoned, callObs>>

\* lines 259-266
AvShorts ==
  /\ pc = "av_shorts"
  /\ IF request.run_shorts
       THEN /\ AvCall("shorts", "av_build")
            /\ shorts_results' = IF pc' = "av_build" THEN ResultOf("shorts") ELSE <<>>
       ELSE /\ pc' = "av_build"
            /\ UNCHANGED <<outcome, submitted, call_raised, shorts_results>>
  /\ UNCHANGED <<inputVars, peerVars, runObs, callBase, stage, progressVars, task_result, long_form_results,
                 custom_results, workerVars, timeVars, credVars, executor, eventVars,
                 abandoned, callObs>>

\* lines 268-275: VideoAssessment is constructed without its required field
\* custom_evaluated_features (models.py, lines 111-119), which raises
\* TypeError; lines 277-295 are never reached
AvBuildAssessment ==
  /\ pc = "av_build"
  /\ AvRaise
  /\ UNCHANGED <<inputVars, peerVars, runObs, callBase, stage, progressVars, resultVars, workerVars, timeVars, credVars,
                 executor, eventVars, submitted, call_raised, abandoned, callObs>>

\* lines 297-300
AvFinally ==
  /\ pc = "av_finally"
  /\ creds_file' = FALSE
  /\ pc' = "done"
  /\ UNCHANGED <<inputVars, peerVars, runObs, callBase, stage, progressVars, resultVars, workerVars, timeVars, creds_path,
                 executor, eventVars, submitted, call_raised, abandoned, callObs, outcome>>

\* lines 359-403: the bearer credential is checked; on a match assess_video
\* is called with the keyword run_custom, which it does not accept (lines
\* 62-99), so the call raises TypeError before its body runs
AssessVideoEndpoint ==
  /\ path = "endpoint" /\ pc = "request"
  /\ outcome' = IF token_ok THEN "raised" ELSE "unauthorized"
  /\ pc' = "done"
  /\ UNCHANGED <<inputVars, peerVars, runObs, callBase, stage, progressVars, resultVars, workerVars, timeVars,
                 credVars, executor, eventVars, submitted, call_raised, abandoned, callObs>>

\* ------------------------------------------------- a second, concurrent run
\* A second request to stream served by the same container while the first
\* run is under way. Each call of stream creates its own cells (lines
\* 438-449), and the closures progress_msg, on_task_complete and
\* run_with_keepalive of a call refer to the cells of that call. The second
\* run is followed through the statements that write progress state; its
\* heartbeat clock is left out.
PeerRequest ==
  [use_annotations |-> FALSE, run_long_form_abcd |-> TRUE, run_shorts |-> FALSE,
   run_custom |-> FALSE, creative_provider_type |-> "YOUTUBE", bq_table_name |-> "",
   gcs_uri |-> "https://youtube.com/watch?v=1"]

\* a yield of the second run's generator
PeerYield(ev) ==
  /\ lastEvent2' = ev
  /\ nProcessing2' = IF ev.status = "processing" THEN Sat(nProcessing2) ELSE nProcessing2

\* lines 430-449: the second request is authorized and its generator created
PeerStreamAuth ==
  /\ path = "stream" /\ pc2 = "idle"
  /\ pc2' = "start"
  /\ UNCHANGED <<runVars, completed2, total2, current_step2, progress_queue2, tasks2,
                 lastEvent2, nProcessing2>>

\* lines 501-559 (and 782-789 when the service account is missing)
PeerSetup ==
  /\ pc2 = "start"
  /\ IF ~sa_json
       THEN /\ PeerYield([status |-> "error", error |-> "GCP_SERVICE_ACCOUNT_JSON not found"])
            /\ pc2' = "done"
            /\ UNCHANGED <<completed2, total2, current_step2>>
       ELSE /\ total2' = Total(PeerRequest)
            /\ completed2' = 1
            /\ current_step2' = "Setting up credentials"
            /\ PeerYield(ProgressMsg("Setting up credentials", 1, Total(PeerRequest)))
            /\ pc2' = "y_setup"
  /\ UNCHANGED <<runVars, progress_queue2, tasks2>>

\* lines 561-564
PeerBuildConfigurationStep ==
  /\ pc2 = "y_setup"
  /\ completed2' = 2
  /\ current_step2' = "Building configuration"
  /\ PeerYield(ProgressMsg("Building configuration", 2, total2))
  /\ pc2' = "y_config"
  /\ UNCHANGED <<runVars, total2, progress_queue2, tasks2>>

\* lines 566-687 and 473-478: the locator matches the provider, the two
\* GCS-only stages are skipped, the long-form stage starts and its call is
\* submitted to the worker of the second run
PeerLongFormStep ==
  /\ pc2 = "y_config"
  /\ ~UnknownProvider(PeerRequest) /\ ~ProviderMismatch(PeerRequest)
  /\ ~RunsAnnotations(PeerRequest) /\ ~RunsTrim(PeerRequest)
  /\ PeerRequest.run_long_form_abcd
  /\ current_step2' = StepName("long_form")
  /\ PeerYield(ProgressMsg(StepName("long_form"), completed2, total2))
  /\ tasks2' = SubTasks("long_form")
  /\ pc2' = "rk_wait"
  /\ UNCHANGED <<runVars, completed2, total2, progress_queue2>>

\* lines 458-463: a sub-task's thread of the second run reads its cell
PeerOnTaskCompleteLoad(i) ==
  /\ pc2 = "rk_wait"
  /\ i \in DOMAIN tasks2 /\ tasks2[i].st = "pending"
  /\ tasks2' = [tasks2 EXCEPT ![i].st = "loaded", ![i].tmp = completed2]
  /\ UNCHANGED <<runVars, pc2, completed2, total2, current_step2, progress_queue2,
                 lastEvent2, nProcessing2>>

\* variant: completed is one cell of the module, shared by the runs
PeerOnTaskCompleteStoreShared(i) ==
  /\ pc2 = "rk_wait"
  /\ i \in DOMAIN tasks2 /\ tasks2[i].st = "loaded"
  /\ completed' = completed + tasks2[i].n
  /\ progress_queue2' = Append(progress_queue2, <<"task_done", completed', total2>>)
  /\ tasks2' = [tasks2 EXCEPT ![i].st = "done", ![i].tmp = 0]
  /\ UNCHANGED <<inputVars, runObs, callBase, pc, stage, total, current_step, progress_queue,
                 resultVars, workerVars, timeVars, credVars, executor, eventVars, submitted,
                 call_raised, abandoned, callObs, outcome,
                 pc2, completed2, total2, current_step2, lastEvent2, nProcessing2>>

\* lines 463-464: the thread writes the sum back and enqueues the delta
PeerOnTaskCompleteStore(i) ==
  /\ pc2 = "rk_wait"
  /\ i \in DOMAIN tasks2 /\ tasks2[i].st = "loaded"
  /\ completed2' = tasks2[i].tmp + tasks2[i].n
  /\ progress_queue2' = Append(progress_queue2, <<"task_done", completed2', total2>>)
  /\ tasks2' = [tasks2 EXCEPT ![i].st = "done", ![i].tmp = 0]
  /\ UNCHANGED <<runVars, pc2, total2, current_step2, lastEvent2, nProcessing2>>

\* lines 486-497: a poll interval of the second run expires with deltas buffered
PeerRkTimeout ==
  /\ pc2 = "rk_wait" /\ progress_queue2 # <<>>
  /\ progress_queue2' = <<>>
  /\ PeerYield(ProgressMsg(current_step2, completed2, total2))
  /\ UNCHANGED <<runVars, pc2, completed2, total2, current_step2, tasks2>>

\* line 480: the call of the second run has returned
PeerRkCompleted ==
  /\ pc2 = "rk_wait"
  /\ \A i \in DOMAIN tasks2 : tasks2[i].st = "done"
  /\ pc2' = "rk_drain"
  /\ UNCHANGED <<runVars, completed2, total2, current_step2, progress_queue2, tasks2,
                 lastEvent2, nProcessing2>>

\* lines 482-484
PeerRkDrainYield ==
  /\ pc2 = "rk_drain" /\ progress_queue2 # <<>>
  /\ progress_queue2' = Tail(progress_queue2)
  /\ PeerYield(ProgressMsg(current_step2, completed2, total2))
  /\ UNCHANGED <<runVars, pc2, completed2, total2, current_step2, tasks2>>

\* lines 485 and 698-737: the stage is over, the Shorts and Custom stages are
\* skipped (run_shorts is false), the assessment step starts
PeerBuildAssessmentStep ==
  /\ pc2 = "rk_drain" /\ progress_queue2 = <<>>
  /\ ~PeerRequest.run_shorts
  /\ completed2' = completed2 + 1
  /\ current_step2' = "Building assessment"
  /\ PeerYield(ProgressMsg("Building assessment", completed2 + 1, total2))
  /\ tasks2' = <<>>
  /\ pc2' = "y_build"
  /\ UNCHANGED <<runVars, total2, progress_queue2>>

\* lines 738-746 and 782-789: custom_results was never bound (run_shorts is
\* false), the second run ends with an error event
PeerAssembleAssessment ==
  /\ pc2 = "y_build"
  /\ PeerYield([status |-> "error", error |-> "UnboundLocalError: custom_results"])
  /\ pc2' = "done"
  /\ UNCHANGED <<runVars, completed2, total2, current_step2, progress_queue2, tasks2>>

PeerNext ==
  \/ PeerStreamAuth
  \/ PeerSetup
  \/ PeerBuildConfigurationStep
  \/ PeerLongFormStep
  \/ \E i \in DOMAIN tasks2 : PeerOnTaskCompleteLoad(i)
  \/ \E i \in DOMAIN tasks2 : PeerOnTaskCompleteStore(i)
  \/ PeerRkTimeout
  \/ PeerRkCompleted
  \/ PeerRkDrainYield
  \/ PeerBuildAssessmentStep
  \/ PeerAssembleAssessment

\* ------------------------------------------------------------ specification
Next ==
  \/ StreamAuth
  \/ AssessVideoEndpoint
  \/ Setup
  \/ BuildConfigurationStep
  \/ Validate
  \/ AnnotationsStep
  \/ TrimStep
  \/ LongFormStep
  \/ ShortsStep
  \/ CustomStep
  \/ BuildAssessmentStep
  \/ AssembleAssessment
  \/ StoreStep
  \/ CleanupStep
  \/ CleanupSubmit
  \/ CleanupAwaitTick
  \/ CleanupAwaited
  \/ Complete
  \/ Abandon
  \/ Finally
  \/ RkStart
  \/ RkCompleted
  \/ RkDrainYield
  \/ RkReturn
  \/ RkRaised
  \/ RkTimeout
  \/ RkLoop
  \/ RkAwait
  \/ \E i \in DOMAIN tasks : OnTaskCompleteLoad(i)
  \/ \E i \in DOMAIN tasks : OnTaskCompleteStore(i)
  \/ WorkerReturn
  \/ WorkerRaise
  \/ AvSetup
  \/ AvValidate
  \/ AvAnnotations
  \/ AvTrim
  \/ AvLongForm
  \/ AvShorts
  \/ AvBuildAssessment
  \/ AvFinally

Spec == Init /\ [][Next]_vars

\* the request of the first run when a second run is followed beside it
TwoRunRequest ==
  [use_annotations |-> FALSE, run_long_form_abcd |-> FALSE, run_shorts |-> TRUE,
   run_custom |-> TRUE, creative_provider_type |-> "YOUTUBE", bq_table_name |-> "",
   gcs_uri |-> "https://youtube.com/watch?v=1"]

InitTwo == Init /\ request = TwoRunRequest /\ features_to_evaluate = ""

NextTwo == Next \/ PeerNext

\* two runs of stream in one container
SpecTwo == InitTwo /\ [][NextTwo]_vars

\* the requests followed under fairness: all seven stages on GCS, the
\* long-form stage alone, the Shorts and Custom stages alone
LiveRequests ==
  {[use_annotations |-> TRUE, run_long_form_abcd |-> TRUE, run_shorts |-> TRUE,
    run_custom |-> TRUE, creative_provider_type |-> "GCS", bq_table_name |-> "results",
    gcs_uri |-> "gs://bucket/video.mp4"],
   PeerRequest, TwoRunRequest}

InitLive == Init /\ request \in LiveRequests /\ features_to_evaluate = ""

\* the steps of the worker thread: a blocking call that was submitted goes
\* on until it returns or raises
WorkerNext ==
  \/ \E i \in DOMAIN tasks : OnTaskCompleteLoad(i)
  \/ \E i \in DOMAIN tasks : OnTaskCompleteStore(i)
  \/ WorkerReturn
  \/ WorkerRaise

\* the steps taken while the client keeps reading
ReadingNext == Next /\ abandoned' = abandoned

\* the event loop runs the generator as long as the client reads, and every
\* blocking call ends
SpecLive == InitLive /\ [][Next]_vars /\ WF_vars(ReadingNext) /\ WF_vars(WorkerNext)


\* ================================================================== claims
\* the provider tag names a family and the locator is not of that family
LocatorMismatch ==
  \/ /\ request.creative_provider_type \in {"GCS", "gcs"}
     /\ request.gcs_uri # "gs://bucket/video.mp4"
  \/ /\ request.creative_provider_type = "YOUTUBE"
     /\ request.gcs_uri # "https://youtube.com/watch?v=1"

\* the streaming run (of an authorized request) has ended and the client read
\* it to the end
ConsumedToEnd == path = "stream" /\ token_ok /\ pc = "done" /\ ~abandoned

\* C1: a streaming run read to its end has written exactly one terminal event
\* (complete or error), never more than one at any moment, and once a
\* terminal event is written no further event is written.
C1_OneTerminalEventLast ==
  /\ [](nComplete + nError <= 1)
  /\ [](ConsumedToEnd => nComplete + nError = 1)
  /\ [][nComplete + nError >= 1 =>
          /\ lastEvent' = lastEvent /\ prevEvent' = prevEvent
          /\ nProcessing' = nProcessing /\ nComplete' = nComplete /\ nError' = nError]_vars

\* a run read to its end that finished all its stages and ended with complete
C1_Witness ==
  /\ ConsumedToEnd
  /\ lastEvent.status = "complete"
  /\ prevEvent.status = "processing"
  /\ submitted # <<>> /\ submitted[Len(submitted)] = "cleanup"

\* C2: whenever a complete event has been written, completed equals the total
\* computed before the run started.
C2_CompleteAtTotal ==
  lastEvent.status = "complete" => completed = total

\* C3: once total is fixed, completed <= total, and every processing event
\* reports progress c/t with c <= t.
C3_CompletedAtMostTotal ==
  (path = "stream" /\ creds_path # None) =>
     /\ completed <= total
     /\ lastEvent.status = "processing" => lastEvent.progress[1] <= lastEvent.progress[2]

\* C4: the completed value of consecutive processing events never decreases.
C4_CompletedNonDecreasing ==
  (prevEvent.status = "processing" /\ lastEvent.status = "processing") =>
     prevEvent.progress[1] <= lastEvent.progress[1]

\* C5: no update of completed is lost: once every completion callback of a
\* call has returned, completed has grown by the sum of their item counts.
C5_NoLostUpdate ==
  (future # "none" /\ tasks # <<>> /\ \A i \in DOMAIN tasks : tasks[i].st = "done") =>
     completed = callBase + TaskCount(CategoryOf(stage))

\* C6: once a blocking call has raised, no blocking call is submitted any
\* more, no complete event is written, and a run read to its end has written
\* exactly one error event.
C6_StageFailureAborts ==
  /\ [](call_raised => nComplete = 0)
  /\ []((call_raised /\ ConsumedToEnd) => nError = 1)
  /\ [][call_raised => submitted' = submitted]_vars

\* the long-form evaluation raised in a run that had Shorts still to do
C6_Witness ==
  /\ ConsumedToEnd /\ call_raised
  /\ request.run_shorts
  /\ submitted # <<>> /\ submitted[Len(submitted)] = "long_form"
  /\ lastEvent.status = "error"

\* C7: while a blocking call is on the worker, once it has run for the
\* heartbeat interval without a completion callback, a processing event with
\* the progress of the event before it has been written.
C7_HeartbeatForEveryCall ==
  (future # "none" /\ clock >= KeepaliveInterval /\ ~cbInCall) => hbInCall

\* C8: on a provider/locator mismatch the streaming run writes no processing
\* event, and exactly one error event by its end.
C8_MismatchNoProcessing ==
  (path = "stream" /\ LocatorMismatch) =>
     /\ nProcessing = 0
     /\ (ConsumedToEnd /\ sa_json) => nError = 1

\* C9: on a provider/locator mismatch no blocking call of a stage is ever
\* started, on the streaming path and in assess_video, and the run does not
\* succeed.
C9_MismatchNoStage ==
  LocatorMismatch => (submitted = <<>> /\ nComplete = 0 /\ outcome # "returned")

\* the streaming run ended on the failed validation
C9_Witness ==
  /\ LocatorMismatch /\ ConsumedToEnd
  /\ creds_path # None
  /\ lastEvent.status = "error"

\* C10: when a run has ended, on whatever path, the temporary credentials
\* file does not exist and, on the streaming path, the worker is shut down.
C10_ReleaseOnEveryExit ==
  pc = "done" => (~creds_file /\ executor # "active"
                  /\ ((path = "stream" /\ token_ok) => executor = "shutdown"))

\* the client abandoned the stream while a blocking call was on the worker
C10_Witness ==
  /\ pc = "done" /\ abandoned
  /\ creds_path # None
  /\ future = "running"


\* C11: a request whose bearer credential does not match is answered
\* unauthorized before anything of the pipeline starts: no event is ever
\* written, the registry is not asked, no credentials file is written, no
\* worker is created and no stage is submitted.
C11_UnauthorizedNoEffect ==
  ~token_ok =>
    /\ nProcessing = 0 /\ nComplete = 0 /\ nError = 0 /\ lastEvent = NoEvent
    /\ ~registry_queried
    /\ creds_path = None /\ ~creds_file
    /\ executor = "none"
    /\ stage = None /\ submitted = <<>> /\ future = "none"
    /\ (pc = "done" => outcome = "unauthorized")

\* a streaming request that asks for every stage, with the service account
\* present, has been refused
C11_Witness ==
  /\ path = "stream" /\ ~token_ok /\ sa_json
  /\ request.run_long_form_abcd /\ request.use_annotations
  /\ pc = "done" /\ outcome = "unauthorized"


\* C12: total is assigned once per run, before the first processing event is
\* written and before the first blocking call is submitted, and does not
\* change afterwards; every processing event carries that total.
C12_TotalFixedOnce ==
  /\ [](total_writes <= 1)
  /\ []((path = "stream" /\ (nProcessing > 0 \/ submitted # <<>>)) => total_writes = 1)
  /\ [][total_writes = 1 => total' = total]_vars
  /\ [](lastEvent.status = "processing" => lastEvent.progress[2] = total)
  /\ [](prevEvent.status = "processing" => prevEvent.progress[2] = total)

\* two processing events of different stages have been written, the second
\* during a blocking call, both with the total assigned at setup
C12_Witness ==
  /\ path = "stream" /\ total_writes = 1 /\ total = Total(request)
  /\ Len(submitted) >= 2 /\ future = "running"
  /\ prevEvent.status = "processing" /\ lastEvent.status = "processing"
  /\ prevEvent.step # lastEvent.step


\* C13: within one run at most one blocking call is on the worker: a call is
\* submitted only when no earlier call of the run is still executing, and the
\* call that is executing is the one submitted last.
C13_OneCallAtATime ==
  /\ [][submitted' # submitted =>
          /\ future # "running"
          /\ \A i \in DOMAIN tasks : tasks[i].st = "done"]_vars
  /\ []((future = "running" /\ pc # "done") =>
          (submitted # <<>> /\ submitted[Len(submitted)] = stage))

\* the third blocking call of a streaming run is executing
C13_Witness ==
  /\ path = "stream" /\ Len(submitted) >= 3 /\ future = "running"
  /\ submitted[1] # submitted[2] /\ submitted[2] # submitted[3]


\* C14: the expiry of the poll interval leaves the blocking call untouched:
\* the same call stays awaited, a running call is never dropped or cancelled,
\* and the value handed to the sequencer is the result that call returned.
C14_PollExpiryKeepsCall ==
  /\ [][(pc = "rk_wait" /\ pc' = "rk_loop") =>
          /\ future' = future /\ tasks' = tasks
          /\ stage' = stage /\ submitted' = submitted]_vars
  /\ [][future = "running" => future' \in {"running", "returned", "raised", "raised_timeout"}]_vars
  /\ [][(pc \in {"rk_drain", "rk_await"} /\ pc' = After(stage)) =>
          /\ future = "returned"
          /\ \A i \in DOMAIN tasks : tasks[i].st = "done"
          /\ task_result' = ResultOf(stage)]_vars

\* an evaluation call that outlived two poll intervals has returned and its
\* result is about to be handed to the sequencer
C14_Witness ==
  /\ pc = "rk_drain" /\ IsEvaluation(stage)
  /\ clock >= 2 * PollTimeout
  /\ future = "returned" /\ task_result = ResultOf(stage)


\* C15: run_with_keepalive hands control back to the sequencer only with an
\* empty progress queue: every delta buffered when the call completed has
\* been taken, and followed by a processing event, before the return.
C15_QueueEmptyOnReturn ==
  [][(pc \in {"rk_drain", "rk_await"} /\ pc' = After(stage)) => progress_queue = <<>>]_vars


\* C16: the completed value of a processing event counts only work that has
\* ended: it never exceeds the number of units really finished, so the unit
\* of an atomic stage is absent until the call of that stage has returned.
C16_CompletedOnlyFinishedWork ==
  (path = "stream" /\ lastEvent.status = "processing") => lastEvent.progress[1] <= finished


\* C17: a run in which an optional stage is enabled (the annotation stage by
\* use_annotations, the store stage by a table name) has a total larger by
\* exactly 1 than the total of the same request with that stage disabled.
C17_OptionalStageCountsOne ==
  /\ (path = "stream" /\ submitted # <<>> /\ submitted[1] = "annotations") =>
        total = Total([request EXCEPT !.use_annotations = FALSE]) + 1
  /\ (path = "stream" /\ \E i \in DOMAIN submitted : submitted[i] = "store") =>
        total = Total([request EXCEPT !.bq_table_name = ""]) + 1


\* C18: when the request restricts the evaluation to one check id, the total
\* assigned at setup is the fixed steps of the request plus 1 unit for the
\* one check, not plus the number of checks in the registry.
C18_FilteredTotalCountsOne ==
  LET fixed_steps ==
        Total([request EXCEPT !.run_long_form_abcd = FALSE, !.run_shorts = FALSE,
                              !.run_custom = FALSE])
        + (IF request.run_long_form_abcd /\ request.creative_provider_type = "GCS"
             THEN 1 ELSE 0)
  IN (/\ path = "stream" /\ total_writes = 1
      /\ features_to_evaluate # "" /\ request.run_long_form_abcd
      /\ ~request.run_shorts /\ ~request.run_custom) =>
       total = fixed_steps + 1


\* C19: the progress state of a run belongs to that run alone: no step of
\* one run (a step that moves that run or its worker) changes the completed,
\* total, current step, progress queue or written events of the other, and
\* each run's events carry its own total.
C19_NoCrossRunSharing ==
  /\ [][peerVars' # peerVars => UNCHANGED <<progressVars, eventVars>>]_vars
  /\ [][<<pc, stage, future, tasks, clock, progressVars, eventVars>>'
          # <<pc, stage, future, tasks, clock, progressVars, eventVars>> =>
          UNCHANGED <<completed2, total2, current_step2, progress_queue2,
                      lastEvent2, nProcessing2>>]_vars
  /\ [](lastEvent.status = "processing" => lastEvent.progress[2] = total)
  /\ [](lastEvent2.status = "processing" => lastEvent2.progress[2] = total2)

\* both runs are inside an evaluation call, each with a callback done and a
\* delta in its own queue, and their totals differ
C19_Witness ==
  /\ pc = "rk_wait" /\ pc2 = "rk_wait"
  /\ progress_queue # <<>> /\ progress_queue2 # <<>>
  /\ total # total2 /\ completed # completed2


\* C20: the teardown does not wait for the call in flight: once the client
\* is gone the release step can be taken whatever the state of the call, it
\* leaves the call as it is, and no event is written from then on.
C20_TeardownDoesNotWait ==
  /\ [](pc = "closing" => ENABLED Finally)
  /\ [][(pc = "closing" /\ pc' = "done") =>
          (future' = future /\ tasks' = tasks /\ executor' = "shutdown")]_vars
  /\ [][abandoned => UNCHANGED eventVars]_vars

\* the client left during an evaluation call; the worker was released while
\* the call was running, and the call went on: a callback fired and the call
\* returned after the release
C20_Witness ==
  /\ pc = "done" /\ abandoned /\ orphaned /\ executor = "shutdown"
  /\ IsEvaluation(stage) /\ cbInCall /\ future = "returned"


\* C21: a poll expiry takes every buffered delta and writes exactly one
\* processing event, the snapshot of the cells, if a delta was taken or
\* KeepaliveInterval time units have passed since the heartbeat clock was
\* set; otherwise it writes nothing. The heartbeat clock is set to the
\* current time exactly when the event is written.
C21_PollExpiryOneEvent ==
  [][(pc = "rk_wait" /\ pc' = "rk_loop") =>
       /\ progress_queue' = <<>>
       /\ IF progress_queue # <<>> \/ (clock' - last_keepalive) >= KeepaliveInterval
            THEN /\ lastEvent' = ProgressMsg(current_step, completed, total)
                 /\ prevEvent' = lastEvent
                 /\ nProcessing' = Sat(nProcessing)
                 /\ nComplete' = nComplete /\ nError' = nError
                 /\ last_keepalive' = clock'
            ELSE UNCHANGED <<eventVars, last_keepalive>>]_vars

\* the first poll interval of the long-form call has expired with the deltas
\* of both groups buffered: the event before the last is still the one that
\* announced the stage, so the expiry wrote one event for the two deltas
C21_Witness ==
  /\ pc = "rk_loop" /\ stage = "long_form" /\ clock = PollTimeout
  /\ Len(tasks) = 2 /\ \A i \in DOMAIN tasks : tasks[i].st = "done"
  /\ progress_queue = <<>> /\ last_keepalive = clock
  /\ lastEvent.status = "processing" /\ prevEvent.status = "processing"
  /\ lastEvent.step = StepName(stage) /\ prevEvent.step = StepName(stage)
  /\ lastEvent.progress[1] = prevEvent.progress[1] + 3


\* C22: once the blocking call of a stage has raised, run_with_keepalive
\* writes no further processing event: the next event of the run is the
\* error event.
C22_FailureNoFurtherProcessing ==
  [][(path = "stream" /\ call_raised /\ ~abandoned) =>
       (nProcessing' = nProcessing
        /\ (lastEvent' # lastEvent => lastEvent'.status = "error"))]_vars


\* the step labels in the order of the statements that set them (lines 555-775)
StepOrder ==
  <<"Setting up credentials", "Building configuration", "Generating video annotations",
    "Trimming video", "Evaluating long-form ABCD features", "Evaluating Shorts features",
    "Evaluating Custom features", "Building assessment", "Storing results in BigQuery",
    "Cleaning up">>

StepRank(label) == CHOOSE i \in DOMAIN StepOrder : StepOrder[i] = label

\* C23: the stages run in the declared order and the events are written in
\* the order generated: the calls are submitted in strictly increasing stage
\* order, every processing event carries the label current when it is
\* written, and the label of a processing event never ranks before the label
\* of the processing event written before it.
C23_StagesInDeclaredOrder ==
  /\ [](\A i, j \in DOMAIN submitted :
          i < j => StepRank(StepName(submitted[i])) < StepRank(StepName(submitted[j])))
  /\ []((lastEvent.status = "processing" /\ prevEvent.status = "processing") =>
          StepRank(prevEvent.step) <= StepRank(lastEvent.step))
  /\ [][(lastEvent' # lastEvent /\ lastEvent'.status = "processing") =>
          lastEvent'.step = current_step']_vars

\* a run that executed all seven stages and wrote the label of the last one
C23_Witness ==
  /\ path = "stream" /\ Len(submitted) = 7 /\ pc = "y_complete"
  /\ prevEvent.status = "processing" /\ prevEvent.step = "Cleaning up"


\* C24: every blocking call on the worker, the cleanup of local files
\* included, is driven by the poll loop of run_with_keepalive: while a call of
\* a live run is executing, the generator is waiting on the bounded poll
\* interval or testing the loop, never on the call itself.
C24_AllCallsThroughPollLoop ==
  (path = "stream" /\ future = "running" /\ pc \notin {"closing", "done"}) =>
    pc \in {"rk_wait", "rk_loop"}


\* C25: an invocation of the completion callback adds the item count of its
\* sub-task to completed and enqueues exactly one delta, leaving total and
\* the current step as they are.
C25_CallbackAddsItemCount ==
  [][\A i \in DOMAIN tasks :
       (i \in DOMAIN tasks' /\ tasks[i].st = "loaded" /\ tasks'[i].st = "done") =>
         /\ completed' = completed + tasks[i].n
         /\ Len(progress_queue') = Len(progress_queue) + 1
         /\ total' = total /\ current_step' = current_step]_vars


C27_CountedIffExecuted ==
  LET ran(st) == \E i \in DOMAIN submitted : submitted[i] = st
      annotations_counted ==
        total # Total([request EXCEPT !.use_annotations = FALSE])
      trim_counted ==
        total # Total([request EXCEPT !.run_long_form_abcd = FALSE])
                  + (IF request.run_long_form_abcd THEN TaskCount("LONG_FORM_ABCD") ELSE 0)
  IN (path = "stream" /\ pc = "at_long_form") =>
       /\ ran("annotations") <=> annotations_counted
       /\ ran("trim") <=> trim_counted


\* C28: each evaluation stage runs iff its own flag is set: once the run has
\* passed the three evaluation stages, the long-form call was submitted iff
\* run_long_form_abcd, the Shorts call iff run_shorts, the Custom call iff
\* run_custom.
C28_StageRunsIffFlag ==
  LET ran(st) == \E i \in DOMAIN submitted : submitted[i] = st
  IN (path = "stream" /\ pc = "at_build") =>
       /\ ran("long_form") <=> request.run_long_form_abcd
       /\ ran("shorts") <=> request.run_shorts
       /\ ran("custom") <=> request.run_custom


\* C29: whatever the three category flags, a run that set up its
\* credentials, passed validation, had no blocking call raise and could
\* serialise its result does not end with an error event.
C29_SuccessfulRunCompletes ==
  (/\ path = "stream" /\ sa_json
   /\ ~UnknownProvider(request) /\ ~ProviderMismatch(request)
   /\ ~call_raised
   /\ lastEvent.status = "error") =>
    lastEvent.error = "result not serialisable"


\* C30: in the result of the complete event each category's list is the
\* value its own evaluation call returned, and is the empty list when the
\* category is disabled.
C30_ResultPerCategory ==
  (path = "stream" /\ lastEvent.status = "complete") =>
    /\ lastEvent.result.long_form_abcd_evaluated_features =
         (IF request.run_long_form_abcd THEN ResultOf("long_form") ELSE <<>>)
    /\ lastEvent.result.shorts_evaluated_features =
         (IF request.run_shorts THEN ResultOf("shorts") ELSE <<>>)
    /\ lastEvent.result.custom_evaluated_features =
         (IF request.run_custom THEN ResultOf("custom") ELSE <<>>)


\* C31: if every blocking call ends and the client keeps reading, a
\* streaming run writes its terminal event; and once the awaited call has
\* ended, run_with_keepalive is left.
C31_EventuallyTerminal ==
  /\ (path = "stream" /\ token_ok) ~> (abandoned \/ nComplete + nError >= 1)
  /\ (pc \in {"rk_wait", "rk_loop"} /\ future # "running") ~>
       (abandoned \/ pc \notin {"rk_wait", "rk_loop", "rk_drain", "rk_await"})

\* a run read to its end: a call outlived a poll interval, was then found to
\* have raised, and the error event was written
C31_Witness ==
  /\ path = "stream" /\ pc = "y_error" /\ ~abandoned
  /\ call_raised /\ Len(submitted) >= 2
  /\ lastEvent.status = "error" /\ nError = 1


\* C32: the progress queue is empty whenever a blocking call is submitted:
\* the deltas of a stage are all taken while that stage is the current step.
C32_QueueEmptyAtSubmission ==
  [][(path = "stream" /\ submitted' # submitted) => progress_queue = <<>>]_vars


\* C33: the temporary credentials file of a run exists as long as a blocking
\* call of that run is executing on the worker.
C33_CredentialsOutliveCalls ==
  (path = "stream" /\ creds_path # None /\ future = "running") => creds_file


\* C34: a streaming run whose credential setup fails (the service-account
\* secret is absent) writes exactly one error event and no processing event,
\* submits no blocking call, has no credentials path to delete, and ends
\* with its worker shut down.
C34_SetupFailure ==
  (path = "stream" /\ token_ok /\ ~sa_json) =>
    /\ nProcessing = 0 /\ nComplete = 0 /\ nError <= 1
    /\ submitted = <<>> /\ future = "none" /\ stage = None
    /\ creds_path = None /\ ~creds_file
    /\ (pc \in {"y_error", "closing", "done"} => nError = 1)
    /\ (pc = "done" => executor = "shutdown")

\* the run without the secret has ended
C34_Witness ==
  /\ path = "stream" /\ token_ok /\ ~sa_json /\ pc = "done" /\ ~abandoned
  /\ lastEvent.status = "error" /\ prevEvent = NoEvent
  /\ executor = "shutdown"


\* C35: when a call completes with deltas buffered, the drain writes a
\* single processing event for all of them: the step of the drain that
\* writes the event leaves the queue empty.
C35_OneEventPerDrain ==
  [][(pc = "rk_drain" /\ progress_queue' # progress_queue) => progress_queue' = <<>>]_vars

====
